---- MODULE Spec2Model ----
(***************************************************************************)
(* Model of the navigation sequencer of @angular/router (router.ts):       *)
(* Router.scheduleNavigation / runNavigate, the guard phase (PreActivation)*)
(* and the activation pass (ActivateRoutes) over a small route table.      *)
(***************************************************************************)
EXTENDS Integers, Sequences, FiniteSets, TLC

\* ------------------------------------------------------------------------
\* Bounds of the model
\* ------------------------------------------------------------------------
\* number of navigations (ids) the environment may schedule
MaxNav == 2

\* navigation ids kept; the specification of the location listener alone
\* (SpecLocation) uses them all
MaxLocNav == 3

\* ------------------------------------------------------------------------
\* Route table used by the model (the `config: Routes` handed to the Router)
\*   team/:id   TeamCmp  (template holds a primary outlet)
\*     user/:name  UserCmp   canDeactivate [CanLeaveUser], resolve [UserData]
\*   simple     SimpleCmp    canActivate [CanEnterSimple]
\*   bad        BadCmp   (template holds a primary outlet only)
\*     side     SideCmp, outlet "right"   -- BadCmp registers no such outlet
\*   old        redirectTo simple
\*   grp/:g     no component                canActivateChild [GrpChild]
\*     ''       BoxCmp   (template holds a primary outlet)
\*                                          canActivateChild [BoxChild]
\*       ''     LeafCmp
\*     ''       PanelCmp, outlet "right"
\*   pop/:p     no component, outlet "aux"  -- no outlet of that name anywhere
\*     ''       TrayCmp, outlet "right"
\*   home       HomeCmp
\*   pip        no component, outlet "aux"
\* The root component's template holds the outlets primary and "right".
\* ------------------------------------------------------------------------
PRIMARY_OUTLET == "primary"

NoCfg == "null"
NoComponent == "none"

\* outlets a component's template registers in its RouterOutletMap
TemplateOutlets(component) ==
  CASE component = "RootCmp" -> <<PRIMARY_OUTLET, "right">>
    [] component = "TeamCmp" -> <<PRIMARY_OUTLET>>
    [] component = "BoxCmp"  -> <<PRIMARY_OUTLET>>
    [] component = "BadCmp"  -> <<PRIMARY_OUTLET>>
    [] OTHER -> <<>>

CanActivateOf(cfg) == IF cfg = "simple" THEN <<"CanEnterSimple">> ELSE <<>>
CanActivateChildOf(cfg) ==
  CASE cfg = "grp" -> <<"GrpChild">>
    [] cfg = "box" -> <<"BoxChild">>
    [] OTHER -> <<>>
CanDeactivateOf(cfg) == IF cfg = "user" THEN <<"CanLeaveUser">> ELSE <<>>
ResolveOf(cfg) == IF cfg = "user" THEN <<"UserData">> ELSE <<>>

\* TreeNode<ActivatedRouteSnapshot>: the value's fields and the children
SnapNode(cfg, params, outlet, component, children) ==
  [cfg |-> cfg, params |-> params, outlet |-> outlet, component |-> component,
   children |-> children]

\* ------------------------------------------------------------------------
\* UrlTree and UrlSerializer (url_tree.ts): a UrlTree is its list of path
\* segments, its query parameters (a set of <<key, value>>) and its fragment
\* ------------------------------------------------------------------------
NoFragment == "null"

Tree(segs, queryParams) ==
  [segs |-> segs, queryParams |-> queryParams, fragment |-> NoFragment]

EmptyUrlTree == Tree(<<>>, {})
UrlTeam11 == Tree(<<"team", "33", "user", "11">>, {})
UrlTeam22 == Tree(<<"team", "33", "user", "22">>, {})
UrlSimple == Tree(<<"simple">>, {})
UrlSimpleQ == Tree(<<"simple">>, {<<"q", "1">>})
UrlBad == Tree(<<"bad", "side">>, {})
UrlOld == Tree(<<"old">>, {})
UrlNone == Tree(<<"nomatch">>, {})
UrlGrp1 == Tree(<<"grp", "1">>, {})
UrlPop1 == Tree(<<"pop", "1">>, {})
UrlPop2 == Tree(<<"pop", "2">>, {})
UrlHomePip == Tree(<<"home(aux:pip)">>, {})

UrlTrees ==
  {EmptyUrlTree, UrlTeam11, UrlTeam22, UrlSimple, UrlSimpleQ, UrlBad, UrlOld, UrlNone,
   UrlGrp1, UrlPop1, UrlPop2, UrlHomePip}

RECURSIVE JoinSegments(_)
JoinSegments(segs) ==
  IF segs = <<>> THEN ""
  ELSE IF Len(segs) = 1 THEN Head(segs)
  ELSE Head(segs) \o "/" \o JoinSegments(Tail(segs))

SerializeQuery(queryParams) ==
  IF queryParams = {} THEN ""
  ELSE LET p == CHOOSE q \in queryParams : TRUE IN "?" \o p[1] \o "=" \o p[2]

\* DefaultUrlSerializer.serialize: "/", the segments joined by "/", the query
serialize(tree) == "/" \o JoinSegments(tree.segs) \o SerializeQuery(tree.queryParams)

\* DefaultUrlSerializer.parse: the tree the string denotes; the leading "/"
\* is optional in the input
parse(url) ==
  CHOOSE t \in UrlTrees :
    \/ serialize(t) = url
    \/ JoinSegments(t.segs) \o SerializeQuery(t.queryParams) = url

\* UrlTree.toString
UrlToString(tree) == serialize(tree)

\* ------------------------------------------------------------------------
\* applyRedirects (apply_redirects.ts) and recognize (recognize.ts)
\* ------------------------------------------------------------------------
\* the url fails to match the route table: the observable errors
RedirectFails(url) == url.segs = <<"nomatch">>

applyRedirects(url) ==
  IF url.segs = <<"old">> THEN Tree(<<"simple">>, url.queryParams) ELSE url

RootSnapshot(children) == SnapNode(NoCfg, {}, PRIMARY_OUTLET, "RootCmp", children)

UserSnapshot(name) ==
  SnapNode("user", {<<"name", name>>}, PRIMARY_OUTLET, "UserCmp", <<>>)

TeamSnapshot(id, name) ==
  SnapNode("team", {<<"id", id>>}, PRIMARY_OUTLET, "TeamCmp", <<UserSnapshot(name)>>)

GrpSnapshot(g) ==
  SnapNode("grp", {<<"g", g>>}, PRIMARY_OUTLET, NoComponent,
           <<SnapNode("box", {}, PRIMARY_OUTLET, "BoxCmp",
                      <<SnapNode("leaf", {}, PRIMARY_OUTLET, "LeafCmp", <<>>)>>),
             SnapNode("panel", {}, "right", "PanelCmp", <<>>)>>)

PopSnapshot(p) ==
  SnapNode("pop", {<<"p", p>>}, "aux", NoComponent,
           <<SnapNode("tray", {}, "right", "TrayCmp", <<>>)>>)

\* RouterStateSnapshot: the root node, the query parameters and the fragment
recognize(url) ==
  [root |->
     CASE url.segs = <<>> -> RootSnapshot(<<>>)
       [] url.segs = <<"team", "33", "user", "11">> -> RootSnapshot(<<TeamSnapshot("33", "11")>>)
       [] url.segs = <<"team", "33", "user", "22">> -> RootSnapshot(<<TeamSnapshot("33", "22")>>)
       [] url.segs = <<"simple">> ->
            RootSnapshot(<<SnapNode("simple", {}, PRIMARY_OUTLET, "SimpleCmp", <<>>)>>)
       [] url.segs = <<"grp", "1">> -> RootSnapshot(<<GrpSnapshot("1")>>)
       [] url.segs = <<"pop", "1">> -> RootSnapshot(<<PopSnapshot("1")>>)
       [] url.segs = <<"pop", "2">> -> RootSnapshot(<<PopSnapshot("2")>>)
       [] url.segs = <<"home(aux:pip)">> ->
            RootSnapshot(<<SnapNode("home", {}, PRIMARY_OUTLET, "HomeCmp", <<>>),
                           SnapNode("pip", {}, "aux", NoComponent, <<>>)>>)
       [] url.segs = <<"bad", "side">> ->
            RootSnapshot(<<SnapNode("bad", {}, PRIMARY_OUTLET, "BadCmp",
                             <<SnapNode("side", {}, "right", "SideCmp", <<>>)>>)>>),
   queryParams |-> url.queryParams,
   fragment |-> url.fragment]

\* ------------------------------------------------------------------------
\* ActivatedRoute objects and RouterState (router_state.ts)
\* An ActivatedRoute is an object on the heap, named by the navigation that
\* created it and its position in that navigation's tree.
\* ------------------------------------------------------------------------
NoSnapshot == SnapNode("undefined", {}, "", NoComponent, <<>>)
NoRoute == <<0 - 1, <<>>>>
RootRoute == <<0, <<>>>>
NoRouteNode == [value |-> NoRoute, children |-> <<>>]

\* the fields of a snapshot without its children (an ActivatedRouteSnapshot)
Value(node) ==
  [cfg |-> node.cfg, params |-> node.params, outlet |-> node.outlet,
   component |-> node.component]

\* createActivatedRoute: snapshot is unset until the route is advanced (the
\* heap holds ActivatedRouteSnapshot values, without the tree's children)
createActivatedRoute(c) ==
  [snapshot |-> Value(NoSnapshot), futureSnapshot |-> Value(c), outlet |-> c.outlet,
   component |-> c.component]

\* createEmptyState: the root route only, already holding its snapshot
EmptyStateSnapshot ==
  [root |-> RootSnapshot(<<>>), queryParams |-> {}, fragment |-> NoFragment]

InitHeap ==
  RootRoute :> [snapshot |-> Value(RootSnapshot(<<>>)),
                futureSnapshot |-> Value(RootSnapshot(<<>>)),
                outlet |-> PRIMARY_OUTLET, component |-> "RootCmp"]

createEmptyState ==
  [root |-> [value |-> RootRoute, children |-> <<>>], snapshot |-> EmptyStateSnapshot]

equalRouteSnapshots(a, b) == a.cfg = b.cfg

\* prevState.children.findIndex(p => equalRouteSnapshots(p.value.snapshot, child)); 0 when none
FindReusable(prevChildren, child, heap) ==
  LET hits == {i \in 1..Len(prevChildren) :
                 equalRouteSnapshots(heap[prevChildren[i].value].snapshot, child)}
  IN IF hits = {} THEN 0 ELSE CHOOSE i \in hits : \A j \in hits : i <= j

RECURSIVE createNode(_, _, _, _, _, _)
RECURSIVE createChildren(_, _, _, _, _, _, _)

\* children of a node of the new tree, from the i-th on; `reuse` says whether
\* the parent was reused (createOrReuseChildren) or is new
createChildren(children, i, prev, reuse, heap, n, path) ==
  IF i > Len(children) THEN [nodes |-> <<>>, heap |-> heap]
  ELSE LET child == children[i]
           idx == IF reuse THEN FindReusable(prev.children, child, heap) ELSE 0
           first == IF idx > 0
                    THEN createNode(child, prev.children[idx], TRUE, heap, n, Append(path, i))
                    ELSE createNode(child, NoRouteNode, FALSE, heap, n, Append(path, i))
           rest == createChildren(children, i + 1, prev, reuse, first.heap, n, path)
       IN [nodes |-> <<first.node>> \o rest.nodes, heap |-> rest.heap]

\* createNode: reuse the previous ActivatedRoute when the route config is the
\* same (its _futureSnapshot is overwritten), else allocate a new one
createNode(curr, prev, hasPrev, heap, n, path) ==
  IF hasPrev /\ equalRouteSnapshots(heap[prev.value].snapshot, curr)
  THEN LET h1 == [heap EXCEPT ![prev.value].futureSnapshot = Value(curr)]
           kids == createChildren(curr.children, 1, prev, TRUE, h1, n, path)
       IN [node |-> [value |-> prev.value, children |-> kids.nodes], heap |-> kids.heap]
  ELSE LET id == <<n, path>>
           h1 == (id :> createActivatedRoute(curr)) @@ heap
           kids == createChildren(curr.children, 1, NoRouteNode, FALSE, h1, n, path)
       IN [node |-> [value |-> id, children |-> kids.nodes], heap |-> kids.heap]

\* createRouterState(curr, prevState): the new RouterState and the heap after it
createRouterState(curr, prevState, heap, n) ==
  LET r == createNode(curr.root, prevState.root, TRUE, heap, n, <<>>)
  IN [state |-> [root |-> r.node, snapshot |-> curr], heap |-> r.heap]

\* advanceActivatedRoute: publish the future snapshot
advanceActivatedRoute(heap, route) ==
  [heap EXCEPT ![route].snapshot = heap[route].futureSnapshot]

\* ------------------------------------------------------------------------
\* RouterOutletMap and RouterOutlet (router_outlet_map.ts, router_outlet.ts)
\* A map is its outlets in registration order; a map is addressed by the path
\* of outlet names that leads to it from the root map.
\* ------------------------------------------------------------------------
UndefinedMap == [defined |-> FALSE, outlets |-> <<>>]

\* a registered outlet that was never activated
NewOutlet(name) ==
  [name |-> name, isActivated |-> FALSE, component |-> NoComponent,
   activatedRoute |-> NoRoute, outletMap |-> UndefinedMap]

\* new RouterOutletMap() once the component's template has registered its outlets
NewOutletMap(component) ==
  [defined |-> TRUE,
   outlets |-> [i \in 1..Len(TemplateOutlets(component)) |->
                  NewOutlet(TemplateOutlets(component)[i])]]

\* position of _outlets[name] in the map, 0 when there is none
OutletIndex(map, name) ==
  IF \E i \in 1..Len(map.outlets) : map.outlets[i].name = name
  THEN CHOOSE i \in 1..Len(map.outlets) : map.outlets[i].name = name
  ELSE 0

RECURSIVE MapAt(_, _)
MapAt(map, path) ==
  IF path = <<>> THEN map
  ELSE IF ~map.defined \/ OutletIndex(map, Head(path)) = 0 THEN UndefinedMap
  ELSE MapAt(map.outlets[OutletIndex(map, Head(path))].outletMap, Tail(path))

HasOutlet(root, path, name) ==
  MapAt(root, path).defined /\ OutletIndex(MapAt(root, path), name) > 0

OutletAt(root, path, name) ==
  MapAt(root, path).outlets[OutletIndex(MapAt(root, path), name)]

RECURSIVE SetOutletAt(_, _, _)
\* the root map with the outlet of that name in the map at `path` replaced
SetOutletAt(map, path, outlet) ==
  IF path = <<>>
  THEN [map EXCEPT !.outlets[OutletIndex(map, outlet.name)] = outlet]
  ELSE [map EXCEPT !.outlets[OutletIndex(map, Head(path))].outletMap =
                      SetOutletAt(@, Tail(path), outlet)]

\* nodeChildrenAsMap, over the outlet names of a node's children: the keys in
\* insertion order, and the child a key maps to (a later child of the same
\* outlet overwrites an earlier one)
RECURSIVE ChildKeys(_)
ChildKeys(names) ==
  IF names = <<>> THEN <<>>
  ELSE LET k == Head(names)
       IN <<k>> \o SelectSeq(ChildKeys(Tail(names)), LAMBDA x : x # k)

ChildIndex(names, k) ==
  IF \E i \in 1..Len(names) : names[i] = k
  THEN CHOOSE i \in 1..Len(names) :
         names[i] = k /\ \A j \in (i + 1)..Len(names) : names[j] # k
  ELSE 0

SnapshotOutlets(children) == [i \in 1..Len(children) |-> children[i].outlet]
RouteOutlets(children, heap) == [i \in 1..Len(children) |-> heap[children[i].value].outlet]

\* ------------------------------------------------------------------------
\* ActivateRoutes: the activation pass.  It works on an activation context
\*   [outletMap, heap, ui, err, by]
\* the root outlet map, the ActivatedRoute heap, the log of mounts and
\* unmounts, whether an exception has been thrown, and the navigation id.
\* Once err is set the remaining steps are skipped (the exception unwinds),
\* and what was done before it stays done.
\* ------------------------------------------------------------------------
Throw(A) == [A EXCEPT !.err = TRUE]

UiEntry(op, component, path, name, by) ==
  [op |-> op, component |-> component, at |-> Append(path, name), by |-> by]

\* getOutlet throws when the map has no outlet of that name
getOutletThrows(A, path, name) == ~HasOutlet(A.outletMap, path, name)

\* RouterOutlet.deactivate: destroy the mounted component
RouterOutlet_deactivate(A, path, name) ==
  LET o == OutletAt(A.outletMap, path, name)
  IN IF A.err THEN A
     ELSE IF ~o.isActivated THEN A
     ELSE [A EXCEPT
             !.outletMap = SetOutletAt(@, path, [o EXCEPT !.isActivated = FALSE]),
             !.ui = Append(@, UiEntry("unmount", o.component, path, name, A.by))]

\* RouterOutlet.activate: mount the component; its template registers the
\* nested outlets in the new map
RouterOutlet_activate(A, path, name, route, newMap) ==
  LET o == OutletAt(A.outletMap, path, name)
      component == A.heap[route].component
  IN [A EXCEPT
        !.outletMap = SetOutletAt(@, path,
                        [name |-> name, isActivated |-> TRUE, component |-> component,
                         activatedRoute |-> route, outletMap |-> newMap]),
        !.ui = Append(@, UiEntry("mount", component, path, name, A.by))]

placeComponentIntoOutlet(A, path, name, route) ==
  RouterOutlet_activate(A, path, name, route, NewOutletMap(A.heap[route].component))

Advance(A, route) == [A EXCEPT !.heap = advanceActivatedRoute(@, route)]

RECURSIVE Activate_deactivateOutletAndItChildren(_, _, _)
RECURSIVE Activate_deactivateOutletMap(_, _)
RECURSIVE Activate_deactivateEach(_, _, _)
RECURSIVE activateChildRoutes(_, _, _, _, _)
RECURSIVE activateEach(_, _, _, _, _, _, _)
RECURSIVE activateRoutes(_, _, _, _, _)
RECURSIVE deactivateRemaining(_, _, _)

\* a teardown that destroys the containing component before the nested ones
Activate_deactivateOutletAndItChildren_ParentFirst(A, path, name) ==
  IF A.err THEN A
  ELSE IF ~HasOutlet(A.outletMap, path, name) THEN A
  ELSE IF ~OutletAt(A.outletMap, path, name).isActivated THEN A
  ELSE Activate_deactivateOutletMap(RouterOutlet_deactivate(A, path, name),
                                    Append(path, name))

\* ActivateRoutes.deactivateOutletAndItChildren(outlet), outlet = _outlets[name]:
\* when the outlet is activated, its nested map first, then the outlet itself
Activate_deactivateOutletAndItChildren(A, path, name) ==
  IF A.err THEN A
  ELSE IF ~HasOutlet(A.outletMap, path, name) THEN A
  ELSE IF ~OutletAt(A.outletMap, path, name).isActivated THEN A
  ELSE RouterOutlet_deactivate(Activate_deactivateOutletMap(A, Append(path, name)),
                               path, name)

\* forEach over the outlets of the map, from the i-th on
Activate_deactivateEach(A, path, i) ==
  IF A.err \/ i > Len(MapAt(A.outletMap, path).outlets) THEN A
  ELSE Activate_deactivateEach(
         Activate_deactivateOutletAndItChildren(A, path, MapAt(A.outletMap, path).outlets[i].name),
         path, i + 1)

\* ActivateRoutes.deactivateOutletMap(outletMap)
Activate_deactivateOutletMap(A, path) ==
  IF A.err THEN A
  ELSE IF ~MapAt(A.outletMap, path).defined THEN Throw(A)
  ELSE Activate_deactivateEach(A, path, 1)

\* the forEach over the previous children no future child has taken:
\* deactivateOutletAndItChildren(outletMap._outlets[k])
deactivateRemaining(A, keys, path) ==
  IF A.err \/ keys = <<>> THEN A
  ELSE IF ~MapAt(A.outletMap, path).defined THEN Throw(A)
  ELSE deactivateRemaining(
         Activate_deactivateOutletAndItChildren(A, path, Head(keys)), Tail(keys), path)

\* prevChildren[c.value.outlet] for the i-th future child: its position among
\* the previous children, 0 when there is none or the key was deleted
PrevRouteIndex(heap, futureNode, i, currNode, hasCurr, used) ==
  IF ~hasCurr \/ heap[futureNode.children[i].value].outlet \in used THEN 0
  ELSE ChildIndex(RouteOutlets(currNode.children, heap),
                  heap[futureNode.children[i].value].outlet)

NodeOr(children, idx, none) == IF idx > 0 THEN children[idx] ELSE none

\* futureNode.children.forEach, from the i-th child on; `used` are the keys
\* already deleted from prevChildren
activateEach(A, futureNode, i, currNode, hasCurr, used, path) ==
  IF A.err \/ i > Len(futureNode.children) THEN A
  ELSE activateEach(
         activateRoutes(
           A, futureNode.children[i],
           NodeOr(currNode.children,
                  PrevRouteIndex(A.heap, futureNode, i, currNode, hasCurr, used),
                  NoRouteNode),
           PrevRouteIndex(A.heap, futureNode, i, currNode, hasCurr, used) > 0,
           path),
         futureNode, i + 1, currNode, hasCurr,
         used \cup {A.heap[futureNode.children[i].value].outlet}, path)

\* the keys left in prevChildren after the forEach over the future children
RemainingRoutes(heap, futureNode, currNode, hasCurr) ==
  SelectSeq(
    ChildKeys(IF hasCurr THEN RouteOutlets(currNode.children, heap) ELSE <<>>),
    LAMBDA k : k \notin {heap[futureNode.children[i].value].outlet :
                           i \in 1..Len(futureNode.children)})

\* ActivateRoutes.activateChildRoutes
activateChildRoutes(A, futureNode, currNode, hasCurr, path) ==
  deactivateRemaining(
    activateEach(A, futureNode, 1, currNode, hasCurr, {}, path),
    RemainingRoutes(A.heap, futureNode, currNode, hasCurr), path)

\* an activation that destroys and re-creates the component of a reused node
ReuseRoute_Remount(A, future, parentPath) ==
  IF A.heap[future].component = NoComponent THEN Advance(A, future)
  ELSE IF getOutletThrows(A, parentPath, A.heap[future].outlet) THEN Throw(Advance(A, future))
  ELSE placeComponentIntoOutlet(
         RouterOutlet_deactivate(Advance(A, future), parentPath, A.heap[future].outlet),
         parentPath, A.heap[future].outlet, future)

\* activateRoutes, the node is reused (lines 644-656): advance it; a route
\* with a component goes through its outlet
ReuseRoute(A, future, parentPath) ==
  IF A.heap[future].component # NoComponent
     /\ getOutletThrows(A, parentPath, A.heap[future].outlet)
  THEN Throw(Advance(A, future))
  ELSE Advance(A, future)

\* activateRoutes, the node is not reused (lines 658-668): deactivate what the
\* previous node had mounted
DeactivatePrevious(A, future, currNode, hasCurr, parentPath) ==
  IF ~hasCurr THEN A
  ELSE IF A.heap[currNode.value].component # NoComponent
  THEN IF getOutletThrows(A, parentPath, A.heap[future].outlet) THEN Throw(A)
       ELSE Activate_deactivateOutletAndItChildren(A, parentPath, A.heap[future].outlet)
  ELSE Activate_deactivateOutletMap(A, parentPath)

\* activateRoutes, the node is not reused (lines 670-683): advance the route
\* and place its component into the outlet
PlaceRoute(A, future, parentPath) ==
  IF A.err THEN A
  ELSE IF A.heap[future].component = NoComponent THEN Advance(A, future)
  ELSE IF getOutletThrows(A, parentPath, A.heap[future].outlet) THEN Throw(Advance(A, future))
  ELSE placeComponentIntoOutlet(Advance(A, future), parentPath, A.heap[future].outlet, future)

\* ActivateRoutes.activateRoutes
activateRoutes(A, futureNode, currNode, hasCurr, parentPath) ==
  IF A.err THEN A
  ELSE activateChildRoutes(
         IF hasCurr /\ futureNode.value = currNode.value
         THEN ReuseRoute(A, futureNode.value, parentPath)
         ELSE PlaceRoute(DeactivatePrevious(A, futureNode.value, currNode, hasCurr, parentPath),
                         futureNode.value, parentPath),
         futureNode,
         IF hasCurr /\ futureNode.value = currNode.value THEN currNode ELSE NoRouteNode,
         hasCurr /\ futureNode.value = currNode.value,
         IF A.heap[futureNode.value].component # NoComponent
         THEN Append(parentPath, A.heap[futureNode.value].outlet)
         ELSE parentPath)

\* shallowEqual (utils/collection.ts) on maps held as sets of <<key, value>>
shallowEqual(a, b) ==
  /\ {p[1] : p \in a} = {p[1] : p \in b}
  /\ \A p \in a : \A q \in b : p[1] = q[1] => p[2] = q[2]

\* pushQueryParamsAndFragment: publish the new values when they differ
pushQueryParamsAndFragment(published, snapshot) ==
  [queryParams |-> IF ~shallowEqual(snapshot.queryParams, published.queryParams)
                   THEN snapshot.queryParams ELSE published.queryParams,
   fragment |-> IF snapshot.fragment # published.fragment
                THEN snapshot.fragment ELSE published.fragment]

PushParams(A, snapshot) ==
  [A EXCEPT !.published = pushQueryParamsAndFragment(@, snapshot)]

\* ActivateRoutes.activate(parentOutletMap) for new ActivateRoutes(futureState, currState)
activate(A, futureState, currState) ==
  activateChildRoutes(
    Advance(PushParams(A, futureState.snapshot), futureState.root.value),
    futureState.root, currState.root, TRUE, <<>>)

\* ------------------------------------------------------------------------
\* PreActivation: the guard-phase diff.  It works on a context
\*   [checks, err, outletMap, heap]
\* and only appends to checks (or throws).
\* ------------------------------------------------------------------------
CanActivate(path) ==
  [kind |-> "CanActivate", path |-> path, component |-> NoComponent,
   route |-> Value(NoSnapshot)]

CanDeactivate(component, route) ==
  [kind |-> "CanDeactivate", path |-> <<>>, component |-> component, route |-> route]

Push(P, check) == [P EXCEPT !.checks = Append(@, check)]

RECURSIVE Pre_deactivateOutletAndItChildren(_, _, _, _)
RECURSIVE Pre_deactivateOutletMap(_, _)
RECURSIVE Pre_deactivateEach(_, _, _)
RECURSIVE traverseChildRoutes(_, _, _, _, _, _)
RECURSIVE traverseEach(_, _, _, _, _, _, _, _)
RECURSIVE traverseRoutes(_, _, _, _, _, _)
RECURSIVE traverseRemaining(_, _, _, _)

PushUnlessErr(P, check) == IF P.err THEN P ELSE Push(P, check)

\* PreActivation.deactivateOutletAndItChildren(route, outlet), outlet = _outlets[name]
Pre_deactivateOutletAndItChildren(P, route, path, name) ==
  IF P.err THEN P
  ELSE IF ~HasOutlet(P.outletMap, path, name) THEN P
  ELSE IF ~OutletAt(P.outletMap, path, name).isActivated THEN P
  ELSE PushUnlessErr(Pre_deactivateOutletMap(P, Append(path, name)),
                     CanDeactivate(OutletAt(P.outletMap, path, name).component, route))

\* forEach over the outlets of the map, from the i-th on; an outlet that is
\* not activated is skipped
Pre_deactivateEach(P, path, i) ==
  IF P.err \/ i > Len(MapAt(P.outletMap, path).outlets) THEN P
  ELSE Pre_deactivateEach(
         IF MapAt(P.outletMap, path).outlets[i].isActivated
         THEN Pre_deactivateOutletAndItChildren(
                P, P.heap[MapAt(P.outletMap, path).outlets[i].activatedRoute].snapshot,
                path, MapAt(P.outletMap, path).outlets[i].name)
         ELSE P,
         path, i + 1)

\* PreActivation.deactivateOutletMap(outletMap)
Pre_deactivateOutletMap(P, path) ==
  IF P.err THEN P
  ELSE IF ~MapAt(P.outletMap, path).defined THEN Throw(P)
  ELSE Pre_deactivateEach(P, path, 1)

\* forEach(prevChildren, (v, k) => deactivateOutletAndItChildren(v, outletMap._outlets[k]))
traverseRemaining(P, currNode, keys, path) ==
  IF P.err \/ keys = <<>> THEN P
  ELSE IF ~MapAt(P.outletMap, path).defined THEN Throw(P)
  ELSE traverseRemaining(
         Pre_deactivateOutletAndItChildren(
           P,
           Value(currNode.children[ChildIndex(SnapshotOutlets(currNode.children), Head(keys))]),
           path, Head(keys)),
         currNode, Tail(keys), path)

\* prevChildren[c.value.outlet] for the i-th future child
PrevSnapshotIndex(futureNode, i, currNode, hasCurr, used) ==
  IF ~hasCurr \/ futureNode.children[i].outlet \in used THEN 0
  ELSE ChildIndex(SnapshotOutlets(currNode.children), futureNode.children[i].outlet)

traverseEach(P, futureNode, i, currNode, hasCurr, used, path, futurePath) ==
  IF P.err \/ i > Len(futureNode.children) THEN P
  ELSE traverseEach(
         traverseRoutes(
           P, futureNode.children[i],
           NodeOr(currNode.children, PrevSnapshotIndex(futureNode, i, currNode, hasCurr, used),
                  NoSnapshot),
           PrevSnapshotIndex(futureNode, i, currNode, hasCurr, used) > 0,
           path, Append(futurePath, Value(futureNode.children[i]))),
         futureNode, i + 1, currNode, hasCurr, used \cup {futureNode.children[i].outlet},
         path, futurePath)

RemainingSnapshots(futureNode, currNode, hasCurr) ==
  SelectSeq(
    ChildKeys(IF hasCurr THEN SnapshotOutlets(currNode.children) ELSE <<>>),
    LAMBDA k : k \notin {futureNode.children[i].outlet : i \in 1..Len(futureNode.children)})

\* PreActivation.traverseChildRoutes
traverseChildRoutes(P, futureNode, currNode, hasCurr, path, futurePath) ==
  traverseRemaining(
    traverseEach(P, futureNode, 1, currNode, hasCurr, {}, path, futurePath),
    currNode, RemainingSnapshots(futureNode, currNode, hasCurr), path)

\* a diff that records the pair of checks for every reused node, whether or
\* not its parameters changed
ReuseChecks_Always(P, futureNode, currNode, parentPath, futurePath) ==
  IF ~HasOutlet(P.outletMap, parentPath, futureNode.outlet) THEN Throw(P)
  ELSE IF ~OutletAt(P.outletMap, parentPath, futureNode.outlet).isActivated THEN Throw(P)
  ELSE Push(Push(P, CanDeactivate(
                      OutletAt(P.outletMap, parentPath, futureNode.outlet).component,
                      Value(currNode))),
            CanActivate(futurePath))

\* traverseRoutes, the node is reused (lines 468-471): when the parameters
\* differ, a deactivate-check with outlet.component and an activate-check;
\* outlet.component throws when there is no outlet or nothing is mounted in it
ReuseChecks(P, futureNode, currNode, parentPath, futurePath) ==
  IF shallowEqual(futureNode.params, currNode.params) THEN P
  ELSE IF ~HasOutlet(P.outletMap, parentPath, futureNode.outlet) THEN Throw(P)
  ELSE IF ~OutletAt(P.outletMap, parentPath, futureNode.outlet).isActivated THEN Throw(P)
  ELSE Push(Push(P, CanDeactivate(
                      OutletAt(P.outletMap, parentPath, futureNode.outlet).component,
                      Value(currNode))),
            CanActivate(futurePath))

\* traverseRoutes, the node is not reused (lines 483-494): the previous node's
\* deactivations, then the activate-check
ReplaceChecks(P, futureNode, currNode, hasCurr, parentPath, futurePath) ==
  PushUnlessErr(
    IF ~hasCurr THEN P
    ELSE IF currNode.component # NoComponent
    THEN Pre_deactivateOutletAndItChildren(P, Value(currNode), parentPath, futureNode.outlet)
    ELSE Pre_deactivateOutletMap(P, parentPath),
    CanActivate(futurePath))

\* PreActivation.traverseRoutes; parentPath addresses parentOutletMap, and an
\* undefined map stands for null (outlet ? outlet.outletMap : null)
traverseRoutes(P, futureNode, currNode, hasCurr, parentPath, futurePath) ==
  IF P.err THEN P
  ELSE traverseChildRoutes(
         IF hasCurr /\ futureNode.cfg = currNode.cfg
         THEN ReuseChecks(P, futureNode, currNode, parentPath, futurePath)
         ELSE ReplaceChecks(P, futureNode, currNode, hasCurr, parentPath, futurePath),
         futureNode,
         IF hasCurr /\ futureNode.cfg = currNode.cfg THEN currNode ELSE NoSnapshot,
         hasCurr /\ futureNode.cfg = currNode.cfg,
         IF futureNode.component # NoComponent
         THEN Append(parentPath, futureNode.outlet)
         ELSE parentPath,
         futurePath)

\* PreActivation.traverse(parentOutletMap) for new PreActivation(future, curr)
traverse(future, curr, outletMap, heap) ==
  traverseChildRoutes(
    [checks |-> <<>>, err |-> FALSE, outletMap |-> outletMap, heap |-> heap],
    future.root, curr.root, TRUE, <<>>, <<Value(future.root)>>)

\* ------------------------------------------------------------------------
\* Guard predicates and resolvers a check list starts
\* ------------------------------------------------------------------------
RECURSIVE Flatten(_)
Flatten(seqs) == IF seqs = <<>> THEN <<>> ELSE Head(seqs) \o Flatten(Tail(seqs))

Reverse(s) == [i \in 1..Len(s) |-> s[Len(s) + 1 - i]]

\* runCanActivate: the route's own canActivate tokens
runCanActivate(route) == CanActivateOf(route.cfg)

\* a runCanActivateChild that asks the ancestors from the root down
runCanActivateChild_RootFirst(path) ==
  Flatten([i \in 1..(Len(path) - 1) |-> CanActivateChildOf(path[i].cfg)])

\* runCanActivateChild: canActivateChild of the ancestors, nearest first
runCanActivateChild(path) ==
  Flatten([i \in 1..(Len(path) - 1) |->
             CanActivateChildOf(Reverse(SubSeq(path, 1, Len(path) - 1))[i].cfg)])

\* runCanDeactivate: the outgoing route's canDeactivate tokens
runCanDeactivate(route) == CanDeactivateOf(route.cfg)

\* the predicates checkGuards starts for one check
GuardsOfCheck(s) ==
  IF s.kind = "CanActivate"
  THEN runCanActivate(s.path[Len(s.path)]) \o runCanActivateChild(s.path)
  ELSE runCanDeactivate(s.route)

GuardCalls(checks) == Flatten([i \in 1..Len(checks) |-> GuardsOfCheck(checks[i])])

\* a resolveData that runs the resolvers of every check's node
ResolveCalls_EveryCheck(checks) ==
  Flatten([i \in 1..Len(checks) |->
             IF checks[i].kind = "CanActivate"
             THEN ResolveOf(checks[i].path[Len(checks[i].path)].cfg)
             ELSE ResolveOf(checks[i].route.cfg)])

\* the resolvers resolveData starts: those of the activate-checks
ResolveCalls(checks) ==
  Flatten([i \in 1..Len(checks) |->
             IF checks[i].kind = "CanActivate"
             THEN ResolveOf(checks[i].path[Len(checks[i].path)].cfg)
             ELSE <<>>])

\* what a predicate may yield: true, false, some other value, or an exception
\* (a rejected promise, an erroring observable, a throw)
GuardValues == {"true", "false", "other", "throw"}

\* a checkGuards that is content with one predicate yielding true
checkGuards_Some(calls, results, first) ==
  IF \E i \in 1..Len(calls) : results[i] = "true" THEN "true"
  ELSE IF results[first] = "throw" THEN "throw"
  ELSE "false"

\* a checkGuards that takes a failing predicate for a denial
checkGuards_ThrowDenies(calls, results, first) ==
  IF \A i \in 1..Len(calls) : results[i] = "true" THEN "true" ELSE "false"

\* checkGuards: every(result => result === true) over the merged results.
\* `results` gives each started predicate's value and `first` the predicate
\* whose non-true value arrives first.
checkGuards(calls, results, first) ==
  IF \A i \in 1..Len(calls) : results[i] = "true" THEN "true"
  ELSE IF results[first] = "throw" THEN "throw"
  ELSE "false"

\* resolveData: fails when a resolver fails
resolveData(calls, results) ==
  IF \E i \in 1..Len(calls) : results[i] = "throw" THEN "throw" ELSE "ok"

\* ------------------------------------------------------------------------
\* Location (@angular/common): the collaborator's raw path; path() and
\* isCurrentPathEqualTo() compare after stripping a trailing slash
\* ------------------------------------------------------------------------
LocationNormalize(path) == IF path = "/" THEN "" ELSE path

\* urls a caller may ask for, and paths the browser may move to
Paths == {"/simple", "team/33/user/11"}
NavUrls ==
  {UrlTeam11, UrlTeam22, UrlSimple, UrlBad, UrlOld, UrlNone, UrlGrp1, UrlPop1, UrlPop2,
   UrlHomePip}
InitialPaths == {"", "/simple"}
ChangePaths == {"/team/33/user/11", "/simple"}
LocChangePaths == {"/team/33/user/11", "/team/33/user/22"}

\* ------------------------------------------------------------------------
\* The Router
\* ------------------------------------------------------------------------
VARIABLES
  navigationId,        \* Router.navigationId
  currentUrlTree,      \* Router.currentUrlTree
  currentRouterState,  \* Router.currentRouterState
  routerEvents,        \* what Router.routerEvents has emitted, in order
  outletMap,           \* Router.outletMap, the root RouterOutletMap
  heap,                \* the ActivatedRoute objects
  published,           \* the shared queryParams / fragment subjects' values
  ui,                  \* mounts and unmounts performed, in order
  locPath,             \* the location collaborator's path
  locLog,              \* go / replaceState calls made, in order
  locationSubscription,\* whether setUpLocationChangeListener has run
  microtasks,          \* the promise jobs queued by the router, oldest first
  nav                  \* per navigation id: the closure of its runNavigate

vars ==
  <<navigationId, currentUrlTree, currentRouterState, routerEvents, outletMap, heap,
    published, ui, locPath, locLog, locationSubscription, microtasks, nav>>

NavIds == 1..MaxLocNav

Event(type, id, url, urlAfterRedirects) ==
  [type |-> type, id |-> id, url |-> url, urlAfterRedirects |-> urlAfterRedirects]
NavigationStart(id, url) == Event("NavigationStart", id, url, "")
NavigationEnd(id, url, after) == Event("NavigationEnd", id, url, after)
NavigationCancel(id, url) == Event("NavigationCancel", id, url, "")
NavigationError(id, url) == Event("NavigationError", id, url, "")
RoutesRecognized(id, url, after) == Event("RoutesRecognized", id, url, after)

\* a navigation id that has not been issued.  Besides the locals of
\* runNavigate the record keeps what the navigation met: guardSaw / resolveSaw
\* are the value the predicates / resolvers delivered ("none": not started),
\* guardYields the values the started predicates yield between them,
\* guards / resolved what checkGuards / resolveData made of it, failedIn the
\* stage that threw, stale whether one of the two id checks found it superseded.
IdleNav ==
  [pc |-> "idle", url |-> EmptyUrlTree, preventPushState |-> FALSE,
   storedState |-> createEmptyState, storedUrl |-> EmptyUrlTree,
   appliedUrl |-> EmptyUrlTree, snapshot |-> EmptyStateSnapshot,
   state |-> createEmptyState, curr |-> EmptyStateSnapshot, checks |-> <<>>,
   guardCalls |-> <<>>,
   guardYields |-> {}, guardSaw |-> "none", guards |-> "none",
   resolving |-> <<>>, resolveSaw |-> "none", resolved |-> "none",
   failedIn |-> "none", stale |-> FALSE,
   navigationIsSuccessful |-> "unset", result |-> "pending"]

Init ==
  /\ navigationId = 0
  /\ currentUrlTree = EmptyUrlTree
  /\ currentRouterState = createEmptyState
  /\ routerEvents = <<>>
  /\ outletMap = NewOutletMap("RootCmp")
  /\ heap = InitHeap
  /\ published = [queryParams |-> {}, fragment |-> NoFragment]
  /\ ui = <<>>
  /\ locPath \in InitialPaths
  /\ locLog = <<>>
  /\ locationSubscription = FALSE
  /\ microtasks = <<>>
  /\ nav = [n \in NavIds |-> IdleNav]

\* a promise reaction job: the deferred runNavigate of scheduleNavigation
\* (line 287) or the then-handlers of the chain (lines 375-386)
Job(kind, n) == [kind |-> kind, n |-> n]

\* a scheduleNavigation that emits NavigationStart before incrementing the id
scheduleNavigation_StartBeforeIncrement(url, preventPushState) ==
  /\ navigationId < MaxLocNav
  /\ LET id == navigationId + 1
     IN /\ navigationId' = id
        /\ routerEvents' = Append(routerEvents, NavigationStart(navigationId, serialize(url)))
        /\ microtasks' = Append(microtasks, Job("runNavigate", id))
        /\ nav' = [nav EXCEPT ![id] = [IdleNav EXCEPT !.pc = "scheduled", !.url = url,
                                         !.preventPushState = preventPushState]]

\* Router.scheduleNavigation(url, preventPushState): allocate the id, emit
\* NavigationStart, defer runNavigate to a microtask
scheduleNavigation(url, preventPushState) ==
  /\ navigationId < MaxLocNav
  /\ LET id == navigationId + 1
     IN /\ navigationId' = id
        /\ routerEvents' = Append(routerEvents, NavigationStart(id, serialize(url)))
        /\ microtasks' = Append(microtasks, Job("runNavigate", id))
        /\ nav' = [nav EXCEPT ![id] = [IdleNav EXCEPT !.pc = "scheduled", !.url = url,
                                         !.preventPushState = preventPushState]]

\* Router.navigateByUrl(url: string)
navigateByUrl(url) ==
  /\ scheduleNavigation(parse(url), FALSE)
  /\ UNCHANGED <<currentUrlTree, currentRouterState, outletMap, heap, published, ui,
                 locPath, locLog, locationSubscription>>

\* Router.navigate(commands, extras): createUrlTree yields the tree
navigate(tree) ==
  /\ scheduleNavigation(tree, FALSE)
  /\ UNCHANGED <<currentUrlTree, currentRouterState, outletMap, heap, published, ui,
                 locPath, locLog, locationSubscription>>

\* Router.initialNavigation: subscribe to the location, navigate to its path
initialNavigation ==
  /\ ~locationSubscription
  /\ locationSubscription' = TRUE
  /\ scheduleNavigation(parse(LocationNormalize(locPath)), FALSE)
  /\ UNCHANGED <<currentUrlTree, currentRouterState, outletMap, heap, published, ui,
                 locPath, locLog>>

\* the location moves to `url` (pop: by a history pop) and notifies the
\* listener of setUpLocationChangeListener
locationChange(url, pop) ==
  /\ locationSubscription
  /\ locPath' = url
  /\ IF UrlToString(currentUrlTree) # UrlToString(parse(url))
     THEN scheduleNavigation(parse(url), pop)
     ELSE UNCHANGED <<navigationId, routerEvents, microtasks, nav>>
  /\ UNCHANGED <<currentUrlTree, currentRouterState, outletMap, heap, published, ui,
                 locLog, locationSubscription>>

\* Location.go / Location.replaceState
LocWrite(op, path, by) == [op |-> op, path |-> path, by |-> by]

\* Location.isCurrentPathEqualTo(path)
isCurrentPathEqualTo(path) == LocationNormalize(locPath) = LocationNormalize(path)

\* an id test that never finds a navigation superseded
isSuperseded_Never(n) == FALSE

\* id !== this.navigationId (lines 302 and 354)
isSuperseded(n) == n # navigationId

\* a cancel test that forgets the guards' verdict
shouldCancel_IdOnly(n, shouldActivate) == isSuperseded(n)

\* the test that opens the forEach callback (line 354)
shouldCancel(n, shouldActivate) == ~shouldActivate \/ isSuperseded(n)

\* an entry cancel that pushes the url the navigation asked for
entryResetPath_Requested(n) == serialize(nav[n].url)

\* the path line 303 hands to location.go when navigation n is canceled at entry
entryResetPath(n) == serialize(currentUrlTree)

\* a commit that always pushes a history entry
syncLocation_AlwaysGo(n, preventPushState, path) ==
  IF ~preventPushState
  THEN /\ locPath' = path
       /\ locLog' = Append(locLog, LocWrite("go", path, n))
  ELSE UNCHANGED <<locPath, locLog>>

\* the location write that ends a commit (lines 365-372)
syncLocation(n, preventPushState, path) ==
  IF ~preventPushState
  THEN /\ locPath' = path
       /\ locLog' = Append(locLog,
                      LocWrite(IF isCurrentPathEqualTo(path) THEN "replaceState" ELSE "go",
                               path, n))
  ELSE UNCHANGED <<locPath, locLog>>

\* the forEach callback of runNavigate (lines 353-374) for navigation n whose
\* closure is r, with the heap h left by createRouterState: cancel, or commit.
\* It ends with the chain settled as success ("settle") or, when activation
\* throws, as failure ("failed"); the then-handlers run in a later microtask.
forEachCallback(n, r, shouldActivate, h, rest) ==
  IF shouldCancel(n, shouldActivate)
  THEN /\ routerEvents' = Append(routerEvents, NavigationCancel(n, serialize(r.url)))
       /\ nav' = [nav EXCEPT ![n] = [r EXCEPT !.pc = "settle",
                                       !.navigationIsSuccessful = "false",
                                       !.stale = isSuperseded(n)]]
       /\ microtasks' = Append(rest, Job("then", n))
       /\ heap' = h
       /\ UNCHANGED <<navigationId, currentUrlTree, currentRouterState, outletMap,
                      published, ui, locPath, locLog, locationSubscription>>
  ELSE LET A == activate([outletMap |-> outletMap, heap |-> h, ui |-> ui,
                          published |-> published, err |-> FALSE, by |-> n],
                         r.state, r.storedState)
           path == serialize(r.appliedUrl)
       IN /\ currentUrlTree' = r.appliedUrl
          /\ currentRouterState' = r.state
          /\ outletMap' = A.outletMap
          /\ heap' = A.heap
          /\ ui' = A.ui
          /\ published' = A.published
          /\ routerEvents' = routerEvents
          /\ microtasks' = Append(rest, Job("then", n))
          /\ IF A.err
             THEN /\ nav' = [nav EXCEPT ![n] = [r EXCEPT !.pc = "failed",
                                                  !.failedIn = "activate"]]
                  /\ UNCHANGED <<locPath, locLog>>
             ELSE /\ nav' = [nav EXCEPT ![n] = [r EXCEPT !.pc = "settle",
                                                  !.navigationIsSuccessful = "true"]]
                  /\ syncLocation(n, r.preventPushState, path)
          /\ UNCHANGED <<navigationId, locationSubscription>>

\* after checkGuards yielded true: resolveData (lines 345-352); with no
\* resolver to wait for the chain goes on synchronously
afterGuards(n, r, h, rest) ==
  IF ResolveCalls(r.checks) = <<>>
  THEN forEachCallback(n, [r EXCEPT !.resolved = "ok"], TRUE, h, rest)
  ELSE /\ nav' = [nav EXCEPT ![n] = [r EXCEPT !.pc = "resolveData",
                                             !.resolving = ResolveCalls(r.checks)]]
       /\ heap' = h
       /\ microtasks' = rest
       /\ UNCHANGED <<navigationId, currentUrlTree, currentRouterState, routerEvents,
                      outletMap, published, ui, locPath, locLog, locationSubscription>>

\* a thrown error that reaches no handler: the chain is rejected and
\* nothing is queued
stageFails_Unhandled(n, r, stage, h, rest) ==
  /\ nav' = [nav EXCEPT ![n] = [r EXCEPT !.pc = "failed", !.failedIn = stage]]
  /\ heap' = h
  /\ microtasks' = rest
  /\ UNCHANGED <<navigationId, currentUrlTree, currentRouterState, routerEvents,
                 outletMap, published, ui, locPath, locLog, locationSubscription>>

\* a stage of the chain throws: the chain is rejected, the error handler
\* (lines 381-386) runs in a later microtask
stageFails(n, r, stage, h, rest) ==
  /\ nav' = [nav EXCEPT ![n] = [r EXCEPT !.pc = "failed", !.failedIn = stage]]
  /\ heap' = h
  /\ microtasks' = Append(rest, Job("then", n))
  /\ UNCHANGED <<navigationId, currentUrlTree, currentRouterState, routerEvents,
                 outletMap, published, ui, locPath, locLog, locationSubscription>>

\* the microtask of scheduleNavigation: Router.runNavigate(url, preventPushState, id)
\* up to the first suspension (lines 301-318)
runNavigate(n) ==
  /\ nav[n].pc = "scheduled"
  /\ microtasks # <<>> /\ Head(microtasks) = Job("runNavigate", n)
  /\ microtasks' = Tail(microtasks)
  /\ IF isSuperseded(n)
     THEN /\ locPath' = entryResetPath(n)
          /\ locLog' = Append(locLog, LocWrite("go", entryResetPath(n), n))
          /\ routerEvents' = Append(routerEvents, NavigationCancel(n, serialize(nav[n].url)))
          /\ nav' = [nav EXCEPT ![n].pc = "done", ![n].result = "false", ![n].stale = TRUE]
          /\ UNCHANGED <<navigationId, currentUrlTree, currentRouterState, outletMap, heap,
                         published, ui, locationSubscription>>
     ELSE /\ nav' = [nav EXCEPT ![n].pc = "applyRedirects",
                                ![n].storedState = currentRouterState,
                                ![n].storedUrl = currentUrlTree]
          /\ UNCHANGED <<navigationId, currentUrlTree, currentRouterState, routerEvents,
                         outletMap, heap, published, ui, locPath, locLog,
                         locationSubscription>>

\* applyRedirects and recognize complete (lines 318-328): RoutesRecognized is
\* emitted and the component resolution (resolve) starts
routesRecognized(n) ==
  /\ nav[n].pc = "applyRedirects"
  /\ IF RedirectFails(nav[n].url)
     THEN stageFails(n, nav[n], "applyRedirects", heap, microtasks)
     ELSE LET u == applyRedirects(nav[n].url)
          IN /\ nav' = [nav EXCEPT ![n].pc = "resolve", ![n].appliedUrl = u,
                                   ![n].snapshot = recognize(u)]
             /\ routerEvents' = Append(routerEvents,
                                  RoutesRecognized(n, serialize(nav[n].url), serialize(u)))
             /\ UNCHANGED <<navigationId, currentUrlTree, currentRouterState, outletMap,
                            heap, published, ui, locPath, locLog, locationSubscription,
                            microtasks>>

\* resolve completes (lines 331-344): createRouterState against the current
\* state, the guard-phase diff, and checkGuards is started
startGuards(n) ==
  /\ nav[n].pc = "resolve"
  /\ LET created == createRouterState(nav[n].snapshot, currentRouterState, heap, n)
         P == traverse(created.state.snapshot, currentRouterState.snapshot, outletMap,
                       created.heap)
         r == [nav[n] EXCEPT !.state = created.state,
                             !.curr = currentRouterState.snapshot, !.checks = P.checks,
                             !.guardCalls = GuardCalls(P.checks)]
     IN IF P.err THEN stageFails(n, r, "traverse", created.heap, microtasks)
        ELSE IF GuardCalls(P.checks) = <<>>
        THEN afterGuards(n, [r EXCEPT !.guards = "true"], created.heap, microtasks)
        ELSE /\ nav' = [nav EXCEPT ![n] = [r EXCEPT !.pc = "checkGuards"]]
             /\ heap' = created.heap
             /\ UNCHANGED <<navigationId, currentUrlTree, currentRouterState, routerEvents,
                            outletMap, published, ui, locPath, locLog,
                            locationSubscription, microtasks>>

\* the started predicates yield `results`, the first non-true one being `first`
guardsDone(n, results, first) ==
  /\ nav[n].pc = "checkGuards"
  /\ results[first] # "true" \/ \A i \in DOMAIN results : results[i] = "true"
  /\ LET outcome == checkGuards(GuardCalls(nav[n].checks), results, first)
         r == [nav[n] EXCEPT !.guards = outcome, !.guardYields = {results[i] : i \in DOMAIN results},
                             !.guardSaw = results[first]]
     IN CASE outcome = "throw" -> stageFails(n, r, "checkGuards", heap, microtasks)
          [] outcome = "true" -> afterGuards(n, r, heap, microtasks)
          [] outcome = "false" -> forEachCallback(n, r, FALSE, heap, microtasks)

\* the started resolvers complete with `results`
resolveDone(n, results) ==
  /\ nav[n].pc = "resolveData"
  /\ LET outcome == resolveData(ResolveCalls(nav[n].checks), results)
         r == [nav[n] EXCEPT !.resolved = outcome,
                             !.resolveSaw = IF \E i \in DOMAIN results : results[i] = "throw"
                                            THEN "throw" ELSE "ok"]
     IN IF outcome = "throw" THEN stageFails(n, r, "resolveData", heap, microtasks)
        ELSE forEachCallback(n, r, TRUE, heap, microtasks)

\* the success handler of the chain (lines 376-380)
thenSuccess(n) ==
  /\ nav[n].pc = "settle"
  /\ microtasks # <<>> /\ Head(microtasks) = Job("then", n)
  /\ microtasks' = Tail(microtasks)
  /\ routerEvents' = Append(routerEvents,
                       NavigationEnd(n, serialize(nav[n].url), serialize(nav[n].appliedUrl)))
  /\ nav' = [nav EXCEPT ![n].pc = "done", ![n].result = nav[n].navigationIsSuccessful]
  /\ UNCHANGED <<navigationId, currentUrlTree, currentRouterState, outletMap, heap,
                 published, ui, locPath, locLog, locationSubscription>>

\* the error handler of the chain (lines 381-386)
thenError(n) ==
  /\ nav[n].pc = "failed"
  /\ microtasks # <<>> /\ Head(microtasks) = Job("then", n)
  /\ microtasks' = Tail(microtasks)
  /\ currentRouterState' = nav[n].storedState
  /\ currentUrlTree' = nav[n].storedUrl
  /\ routerEvents' = Append(routerEvents, NavigationError(n, serialize(nav[n].url)))
  /\ nav' = [nav EXCEPT ![n].pc = "done", ![n].result = "rejected"]
  /\ UNCHANGED <<navigationId, outletMap, heap, published, ui, locPath, locLog,
                 locationSubscription>>

\* the outcomes the started predicates may have.  checkGuards does not tell
\* the predicates apart, so one arrangement of each combination of outcomes
\* is enough; which of them is delivered first is chosen separately
GuardValueRank(v) ==
  CASE v = "true" -> 0 [] v = "false" -> 1 [] v = "other" -> 2 [] v = "throw" -> 3

ResultsOver(calls) ==
  {r \in [1..Len(calls) -> GuardValues] :
     \A i \in 1..Len(calls) : \A j \in i..Len(calls) :
       GuardValueRank(r[i]) <= GuardValueRank(r[j])}

Next ==
  \/ navigationId < MaxNav /\ \E url \in Paths : navigateByUrl(url)
  \/ navigationId < MaxNav /\ \E tree \in NavUrls : navigate(tree)
  \/ navigationId < MaxNav /\ initialNavigation
  \/ \E url \in ChangePaths, pop \in BOOLEAN :
       /\ navigationId < MaxNav \/ UrlToString(currentUrlTree) = UrlToString(parse(url))
       /\ locationChange(url, pop)
  \/ \E n \in NavIds : runNavigate(n)
  \/ \E n \in NavIds : routesRecognized(n)
  \/ \E n \in NavIds : startGuards(n)
  \/ \E n \in NavIds :
       /\ nav[n].pc = "checkGuards"
       /\ \E results \in ResultsOver(GuardCalls(nav[n].checks)) :
            \E first \in DOMAIN results : guardsDone(n, results, first)
  \/ \E n \in NavIds :
       /\ nav[n].pc = "resolveData"
       /\ \E results \in [1..Len(ResolveCalls(nav[n].checks)) -> {"ok", "throw"}] :
            resolveDone(n, results)
  \/ \E n \in NavIds : thenSuccess(n)
  \/ \E n \in NavIds : thenError(n)

Spec == Init /\ [][Next]_vars

\* the router driven by its location listener alone: the initial navigation
\* and the change events of the location collaborator.  A change event is a
\* task of its own: it is delivered when no promise job is pending, and the
\* collaborator marks it as a pop.
LocNext ==
  \/ initialNavigation
  \/ \E url \in LocChangePaths : microtasks = <<>> /\ locationChange(url, TRUE)
  \/ \E n \in NavIds : runNavigate(n)
  \/ \E n \in NavIds : routesRecognized(n)
  \/ \E n \in NavIds : startGuards(n)
  \/ \E n \in NavIds :
       /\ nav[n].pc = "checkGuards"
       /\ \E results \in ResultsOver(GuardCalls(nav[n].checks)) :
            \E first \in DOMAIN results : guardsDone(n, results, first)
  \/ \E n \in NavIds :
       /\ nav[n].pc = "resolveData"
       /\ \E results \in [1..Len(ResolveCalls(nav[n].checks)) -> {"ok", "throw"}] :
            resolveDone(n, results)
  \/ \E n \in NavIds : thenSuccess(n)
  \/ \E n \in NavIds : thenError(n)

SpecLocation == Init /\ [][LocNext]_vars

\* the URLs of the fair specification: a guarded route, a route with a
\* deactivation guard and a resolver, a route whose activation fails, and
\* two routes between which the guard-phase diff throws
LiveUrls == {UrlSimple, UrlTeam11, UrlBad, UrlPop1, UrlPop2}

\* checkGuards of navigation n completes: its predicates have answered
guardsComplete(n) ==
  /\ nav[n].pc = "checkGuards"
  /\ \E results \in ResultsOver(GuardCalls(nav[n].checks)) :
       \E first \in DOMAIN results : guardsDone(n, results, first)

\* resolveData of navigation n completes: its resolvers have answered
resolversComplete(n) ==
  /\ nav[n].pc = "resolveData"
  /\ \E results \in [1..Len(ResolveCalls(nav[n].checks)) -> {"ok", "throw"}] :
       resolveDone(n, results)

LiveNext ==
  \/ navigationId < MaxNav /\ \E tree \in LiveUrls : navigate(tree)
  \/ \E n \in NavIds : runNavigate(n)
  \/ \E n \in NavIds : routesRecognized(n)
  \/ \E n \in NavIds : startGuards(n)
  \/ \E n \in NavIds : guardsComplete(n)
  \/ \E n \in NavIds : resolversComplete(n)
  \/ \E n \in NavIds : thenSuccess(n)
  \/ \E n \in NavIds : thenError(n)

\* The promise jobs (the runNavigate job of line 287, the handlers of lines
\* 375-386) are run by the microtask queue; redirect/match resolution, the
\* guards and the resolvers are assumed to complete or fail.  Each is weak
\* fairness of one step of the chain; for startGuards and guardsComplete it
\* is written out, []<>~ENABLED <<A>>_vars \/ []<><<A>>_vars, with the
\* enabling condition of the step in place of ENABLED.
Fairness ==
  \A n \in NavIds :
    /\ WF_vars(runNavigate(n))
    /\ WF_vars(routesRecognized(n))
    /\ []<>(nav[n].pc # "resolve") \/ []<><<startGuards(n)>>_vars
    /\ []<>(nav[n].pc # "checkGuards") \/ []<><<guardsComplete(n)>>_vars
    /\ WF_vars(resolversComplete(n))
    /\ WF_vars(thenSuccess(n))
    /\ WF_vars(thenError(n))

SpecLive == Init /\ [][LiveNext]_vars /\ Fairness

\* ------------------------------------------------------------------------
\* Vocabulary of the properties
\* ------------------------------------------------------------------------
\* the authoritative pair
Pair == <<currentUrlTree, currentRouterState>>

\* navigation n takes a step
Stepped(n) == nav'[n] # nav[n]

EventsOf(n) == SelectSeq(routerEvents, LAMBDA e : e.id = n)
TypesOf(n) == {EventsOf(n)[i].type : i \in 1..Len(EventsOf(n))}
CountOf(n, type) == Len(SelectSeq(routerEvents, LAMBDA e : e.id = n /\ e.type = type))

\* what became of navigation n, by what it met on its way
Committed(n) == nav[n].navigationIsSuccessful = "true"
GuardDenied(n) == nav[n].guardSaw \in {"false", "other"}
Threw(n) ==
  \/ nav[n].guardSaw = "throw"
  \/ nav[n].resolveSaw = "throw"
  \/ nav[n].failedIn \in {"applyRedirects", "traverse", "activate"}
Canceled(n) == GuardDenied(n) \/ nav[n].stale

\* navigation n entered its commit block (lines 360-373)
ReachedCommit(n) == Committed(n) \/ nav[n].failedIn = "activate"

\* C1: a navigation that is superseded before it reached its commit point
\* never writes the authoritative pair and never mounts or unmounts a
\* component in any of its steps, and, unless one of its stages threw,
\* it resolves false.
C1_OnlyLatestCommits ==
  [][\A n \in NavIds :
       (Stepped(n) /\ nav[n].pc # "idle" /\ n # navigationId /\ ~ReachedCommit(n)) =>
         /\ Pair' = Pair /\ ui' = ui
         /\ (nav'[n].pc = "done" /\ nav[n].pc # "failed") => nav'[n].result = "false"]_vars

\* C2: handling the failure of a navigation that failed before its commit
\* block (redirect / match, the guard-phase diff, a guard, a resolver) leaves
\* the authoritative pair as it was immediately before.
C2_FailureKeepsPair ==
  [][\A n \in NavIds :
       (nav[n].pc = "failed" /\ nav[n].failedIn # "activate" /\ nav'[n].pc = "done")
         => Pair' = Pair]_vars

\* C3: once the promise of a navigation is settled, it is true exactly when
\* the navigation committed, false exactly when a guard yielded a non-true
\* value or one of the two id checks found it superseded, and rejected
\* exactly when a stage threw; a throwing guard never gives false.
C3_PromiseMatchesOutcome ==
  \A n \in NavIds :
    nav[n].pc = "done" =>
      /\ nav[n].result \in {"true", "false", "rejected"}
      /\ nav[n].result = "true" <=> Committed(n)
      /\ nav[n].result = "false" <=> Canceled(n)
      /\ nav[n].result = "rejected" <=> Threw(n)
      /\ nav[n].guardSaw = "throw" => nav[n].result # "false"

C3_Witness ==
  /\ nav[1].pc = "done" /\ nav[1].guardSaw = "throw" /\ nav[1].result = "rejected"
  /\ nav[2].pc = "done" /\ nav[2].result = "true"

\* C4: a settled navigation has emitted exactly one terminal event, and it is
\* NavigationEnd iff it committed, NavigationCancel iff it was denied or
\* superseded, NavigationError iff it failed; NavigationCancel and
\* NavigationEnd never both carry the same id.
C4_OneTerminalEvent ==
  \A n \in NavIds :
    /\ ~({"NavigationCancel", "NavigationEnd"} \subseteq TypesOf(n))
    /\ nav[n].pc = "done" =>
         /\ CountOf(n, "NavigationEnd") + CountOf(n, "NavigationCancel")
              + CountOf(n, "NavigationError") = 1
         /\ "NavigationEnd" \in TypesOf(n) <=> Committed(n)
         /\ "NavigationCancel" \in TypesOf(n) <=> Canceled(n)
         /\ "NavigationError" \in TypesOf(n) <=> Threw(n)

\* C5: the step in which a guard's non-true value reaches navigation n emits
\* NavigationCancel with n and the requested url and changes neither the
\* pair, the mounted components nor the location; and n resolves false.
C5_GuardDenialFrame ==
  [][\A n \in NavIds :
       /\ (nav[n].pc = "checkGuards" /\ Stepped(n)
           /\ nav'[n].guardSaw \in {"false", "other"})
            => /\ routerEvents' =
                    Append(routerEvents, NavigationCancel(n, serialize(nav[n].url)))
               /\ Pair' = Pair
               /\ outletMap' = outletMap /\ ui' = ui
               /\ locPath' = locPath /\ locLog' = locLog
       /\ (nav'[n].pc = "done" /\ nav'[n].guardSaw \in {"false", "other"})
            => nav'[n].result = "false"]_vars

\* a denied navigation whose requested url is not the current one
C5_Witness ==
  \E n \in NavIds :
    /\ nav[n].pc = "done" /\ nav[n].guardSaw = "false" /\ nav[n].result = "false"
    /\ nav[n].url # currentUrlTree
    /\ currentUrlTree # EmptyUrlTree

\* C6: the pair only ever changes as a whole, in the step in which a
\* navigation commits, to that navigation's url and state; it is never a pair
\* that is withdrawn afterwards.
C6_AtomicNeverWithdrawn ==
  [][Pair' # Pair =>
       \E n \in NavIds :
         /\ ~Committed(n)
         /\ nav'[n].navigationIsSuccessful = "true"
         /\ currentUrlTree' = nav'[n].appliedUrl
         /\ currentRouterState' = nav'[n].state]_vars

\* C7 as stated: every go / replaceState comes from a navigation that commits.
C7_OnlyCommitWritesLocation ==
  [][locLog' # locLog =>
       \E n \in NavIds : Stepped(n) /\ nav'[n].navigationIsSuccessful = "true"]_vars

\* C7 amended: go / replaceState is called only in the step in which a
\* navigation commits, or in the step in which a navigation is found
\* superseded at entry, which calls go once with the serialized current url;
\* a navigation denied by a guard, superseded before commit or failing makes
\* no call.
C7_LocationWrites ==
  [][\A n \in NavIds :
       Stepped(n) =>
         \/ locLog' = locLog
         \/ ~Committed(n) /\ nav'[n].navigationIsSuccessful = "true"
         \/ /\ nav[n].pc = "scheduled" /\ n # navigationId
            /\ nav'[n].pc = "done"
            /\ locLog' = Append(locLog, LocWrite("go", serialize(currentUrlTree), n))
            /\ locPath' = serialize(currentUrlTree)]_vars

\* a navigation canceled at entry wrote the location, one denied by a guard did not
C7_Witness ==
  /\ nav[1].pc = "done" /\ nav[1].stale /\ nav[1].guardSaw = "none"
  /\ \E i \in 1..Len(locLog) : locLog[i].by = 1 /\ locLog[i].op = "go"
  /\ nav[2].pc = "done" /\ GuardDenied(2)
  /\ \A i \in 1..Len(locLog) : locLog[i].by # 2

\* C8: the step in which a navigation commits makes exactly one location
\* write when the navigation was not triggered by a pop -- replaceState(path)
\* if the location's path equals the serialized post-redirect url, else
\* go(path) -- and none when it was.
C8_CommitLocationWrite ==
  [][\A n \in NavIds :
       (~Committed(n) /\ nav'[n].navigationIsSuccessful = "true") =>
         LET path == serialize(nav'[n].appliedUrl)
         IN IF nav[n].preventPushState
            THEN locLog' = locLog /\ locPath' = locPath
            ELSE /\ locLog' =
                      Append(locLog,
                             LocWrite(IF LocationNormalize(locPath) = LocationNormalize(path)
                                      THEN "replaceState" ELSE "go", path, n))
                 /\ locPath' = path]_vars

\* the initial navigation committed with replaceState, then a navigation
\* triggered by a pop committed without a write
C8_Witness ==
  /\ Committed(1) /\ ~nav[1].preventPushState
  /\ Committed(2) /\ nav[2].preventPushState
  /\ nav[2].appliedUrl # nav[1].appliedUrl
  /\ locLog = <<LocWrite("replaceState", serialize(nav[1].appliedUrl), 1)>>

\* C9: a navigation that is superseded when its deferred turn starts is
\* canceled at entry: that step starts no stage (no RoutesRecognized, no
\* check list, no guard, no resolver), leaves the pair alone, emits
\* NavigationCancel and resolves false.
C9_CanceledAtEntry ==
  [][\A n \in NavIds :
       (nav[n].pc = "scheduled" /\ n # navigationId /\ Stepped(n)) =>
         /\ nav'[n].pc = "done" /\ nav'[n].result = "false"
         /\ nav'[n].checks = <<>> /\ nav'[n].guardSaw = "none"
         /\ nav'[n].resolveSaw = "none" /\ nav'[n].failedIn = "none"
         /\ routerEvents' =
              Append(routerEvents, NavigationCancel(n, serialize(nav[n].url)))
         /\ Pair' = Pair /\ outletMap' = outletMap /\ ui' = ui]_vars

\* two calls back to back: the first resolved false, the second committed
C9_Witness ==
  /\ Len(routerEvents) >= 2
  /\ routerEvents[1].type = "NavigationStart" /\ routerEvents[2].type = "NavigationStart"
  /\ nav[1].pc = "done" /\ nav[1].result = "false" /\ nav[1].stale
  /\ TypesOf(1) = {"NavigationStart", "NavigationCancel"}
  /\ nav[2].pc = "done" /\ nav[2].result = "true"

\* C10: ids go up by exactly one per scheduled navigation, and the call that
\* allocates id emits NavigationStart(id) before anything else of that
\* navigation happens: the first event with an id is its NavigationStart,
\* there is one per id, and their ids are 1, 2, ... in emission order.
StartEvents == SelectSeq(routerEvents, LAMBDA e : e.type = "NavigationStart")

C10_IdsAndStart ==
  /\ Len(StartEvents) = navigationId
  /\ \A i \in 1..Len(StartEvents) : StartEvents[i].id = i
  /\ \A n \in NavIds :
       /\ nav[n].pc # "idle" <=> n <= navigationId
       /\ EventsOf(n) # <<>> =>
            /\ EventsOf(n)[1] = NavigationStart(n, serialize(nav[n].url))
            /\ nav[n].pc # "idle"
       /\ nav[n].pc = "scheduled" =>
            EventsOf(n) = <<NavigationStart(n, serialize(nav[n].url))>>

C10_Witness ==
  /\ navigationId = MaxNav
  /\ \A n \in 1..MaxNav : nav[n].pc = "done"

\* ------------------------------------------------------------------------
\* The guard phase and the activation pass
\* ------------------------------------------------------------------------
AllTrue(yields) == yields \subseteq {"true"}
SomeDenial(yields) == yields \cap {"false", "other"} # {}
SomeThrow(yields) == "throw" \in yields

\* C11 as stated: checkGuards yields true iff every predicate yields true,
\* and a non-true value anywhere makes the result false whatever the other
\* predicates do.
C11_AnyNonTrueDenies ==
  \A n \in NavIds :
    nav[n].guardYields # {} =>
      /\ nav[n].guards = "true" <=> AllTrue(nav[n].guardYields)
      /\ SomeDenial(nav[n].guardYields) => nav[n].guards = "false"

\* C11 amended: checkGuards yields true iff every predicate of every check
\* yields true; it yields false iff the first non-true outcome delivered is
\* a value, whatever the other predicates yield or throw afterwards, and in
\* particular whenever some predicate yields a non-true value and none
\* throws; it fails, yielding nothing, iff the first non-true outcome is an
\* exception; and with nothing to ask it yields true and asks nobody.
C11_GuardAnd ==
  \A n \in NavIds :
    /\ nav[n].guardYields # {} =>
         /\ GuardCalls(nav[n].checks) # <<>>
         /\ nav[n].guardSaw \in nav[n].guardYields
         /\ nav[n].guardSaw = "true" <=> AllTrue(nav[n].guardYields)
         /\ nav[n].guards = "true" <=> AllTrue(nav[n].guardYields)
         /\ nav[n].guards = "false" <=> nav[n].guardSaw \in {"false", "other"}
         /\ nav[n].guards = "throw" <=> nav[n].guardSaw = "throw"
         /\ (SomeDenial(nav[n].guardYields) /\ ~SomeThrow(nav[n].guardYields))
              => nav[n].guards = "false"
    /\ (nav[n].guards # "none" /\ GuardCalls(nav[n].checks) = <<>>) =>
         nav[n].guards = "true" /\ nav[n].guardYields = {} /\ nav[n].guardSaw = "none"
    /\ nav[n].pc = "checkGuards" => GuardCalls(nav[n].checks) # <<>>

\* several predicates were asked, one yields true, one false, one throws;
\* the false came first and the result is false
C11_Witness ==
  \E n \in NavIds :
    /\ Len(GuardCalls(nav[n].checks)) >= 3
    /\ nav[n].guardYields = {"true", "false", "throw"}
    /\ nav[n].guards = "false"
    /\ nav[n].pc = "done" /\ nav[n].result = "false"

\* the nodes of the next tree that keep the node the previous tree has in the
\* same slot of the same parent (same route configuration), paired with it:
\* the two snapshots, the two ActivatedRoutes, and the address `at` of the
\* node's outlet; `inner` addresses the outlet map its children are placed in
\* (the root is in no outlet, and a node without a component passes its
\* parent's map on)
RECURSIVE KeptNodes(_, _, _, _, _, _)
KeptNodes(f, p, fr, pr, at, inner) ==
  {[future |-> Value(f), prev |-> Value(p), route |-> fr.value,
    prevRoute |-> pr.value, at |-> at]}
  \cup UNION {
    LET j == ChildIndex(SnapshotOutlets(p.children), f.children[i].outlet)
    IN IF j > 0 /\ f.children[i].cfg = p.children[j].cfg
       THEN KeptNodes(f.children[i], p.children[j], fr.children[i], pr.children[j],
                      Append(inner, f.children[i].outlet),
                      IF f.children[i].component # NoComponent
                      THEN Append(inner, f.children[i].outlet) ELSE inner)
       ELSE {} : i \in 1..Len(f.children)}

\* the kept nodes of a navigation (its record), against the state it started from
KeptBy(nv) ==
  KeptNodes(nv.state.snapshot.root, nv.storedState.snapshot.root,
            nv.state.root, nv.storedState.root, <<>>, <<>>)

\* the checks of navigation n that are about a node: an activate-check for
\* the next snapshot, a deactivate-check for the previous one
ChecksAbout(checks, x) ==
  {i \in 1..Len(checks) :
     \/ /\ checks[i].kind = "CanActivate"
        /\ checks[i].path[Len(checks[i].path)] = x.future
     \/ /\ checks[i].kind = "CanDeactivate"
        /\ checks[i].route = x.prev}

\* the mounts and unmounts of the step
UiOfStep == {ui'[k] : k \in (Len(ui) + 1)..Len(ui')}

UserParamChange(n) ==
  /\ ~Committed(n) /\ nav'[n].navigationIsSuccessful = "true"
  /\ nav[n].url = UrlTeam22 /\ nav[n].storedUrl = UrlTeam11

\* a deactivate-check for the user/11 node, then an activate-check for the
\* user/22 node, and nothing for the team node
UserParamChecks ==
  <<CanDeactivate("UserCmp", Value(UserSnapshot("11"))),
    CanActivate(<<Value(RootSnapshot(<<>>)), Value(TeamSnapshot("33", "22")),
                  Value(UserSnapshot("22"))>>)>>

UserOutletPath == <<PRIMARY_OUTLET>>

\* C13 as stated: from /team/33/user/11 to /team/33/user/22 the check list
\* is the deactivate-check of user/11 and the activate-check of user/22,
\* with no check for team, the user component is unmounted and mounted
\* again, and the team component is left alone.
C13_UserRemounted ==
  [][\A n \in NavIds :
       UserParamChange(n) =>
         /\ nav'[n].checks = UserParamChecks
         /\ \E e \in UiOfStep : e.op = "unmount" /\ e.component = "UserCmp"
         /\ \E e \in UiOfStep : e.op = "mount" /\ e.component = "UserCmp"
         /\ \A e \in UiOfStep : e.component # "TeamCmp"]_vars

\* C13 amended: from /team/33/user/11 to /team/33/user/22 the check list is
\* the deactivate-check of user/11 followed by the activate-check of
\* user/22, with no check for team; activation mounts and unmounts nothing:
\* the team and the user component stay mounted in their outlets, with the
\* same ActivatedRoutes, and the user's ActivatedRoute is advanced to the
\* user/22 snapshot.
C13_UserAdvancedInPlace ==
  [][\A n \in NavIds :
       UserParamChange(n) =>
         /\ nav'[n].checks = UserParamChecks
         /\ UiOfStep = {}
         /\ OutletAt(outletMap', <<>>, PRIMARY_OUTLET) = OutletAt(outletMap, <<>>, PRIMARY_OUTLET)
         /\ OutletAt(outletMap, <<>>, PRIMARY_OUTLET).component = "TeamCmp"
         /\ OutletAt(outletMap, UserOutletPath, PRIMARY_OUTLET).isActivated
         /\ OutletAt(outletMap, UserOutletPath, PRIMARY_OUTLET).component = "UserCmp"
         /\ heap[OutletAt(outletMap, UserOutletPath, PRIMARY_OUTLET).activatedRoute].snapshot
              = Value(UserSnapshot("11"))
         /\ heap'[OutletAt(outletMap, UserOutletPath, PRIMARY_OUTLET).activatedRoute].snapshot
              = Value(UserSnapshot("22"))]_vars

\* the second navigation committed /team/33/user/22 over /team/33/user/11:
\* its two checks were recorded, both components are the ones the first
\* navigation mounted, and the user's ActivatedRoute shows user/22
C13_Witness ==
  /\ nav[1].url = UrlTeam11 /\ Committed(1)
  /\ nav[2].url = UrlTeam22 /\ nav[2].storedUrl = UrlTeam11 /\ Committed(2)
  /\ nav[2].checks = UserParamChecks
  /\ \A k \in 1..Len(ui) : ui[k].by = 1
  /\ OutletAt(outletMap, UserOutletPath, PRIMARY_OUTLET).component = "UserCmp"
  /\ heap[OutletAt(outletMap, UserOutletPath, PRIMARY_OUTLET).activatedRoute].snapshot
       = Value(UserSnapshot("22"))

\* the previous nodes without a component that the next tree does not keep,
\* each with the address `inner` of the outlet map its children were placed
\* in (its parent's), found below a kept pair of nodes
RECURSIVE DroppedComponentless(_, _, _)
DroppedComponentless(f, p, inner) ==
  {[prev |-> Value(p.children[j]), inner |-> inner,
    replaced |-> \E i \in 1..Len(f.children) : f.children[i].outlet = p.children[j].outlet] :
     j \in {k \in 1..Len(p.children) :
              /\ p.children[k].component = NoComponent
              /\ ~\E i \in 1..Len(f.children) :
                    /\ f.children[i].outlet = p.children[k].outlet
                    /\ f.children[i].cfg = p.children[k].cfg}}
  \cup UNION {
    LET j == ChildIndex(SnapshotOutlets(p.children), f.children[i].outlet)
    IN IF j > 0 /\ f.children[i].cfg = p.children[j].cfg
       THEN DroppedComponentless(f.children[i], p.children[j],
                                 IF f.children[i].component # NoComponent
                                 THEN Append(inner, f.children[i].outlet) ELSE inner)
       ELSE {} : i \in 1..Len(f.children)}

\* the activated outlets of the map at `path` and of the maps nested in them
RECURSIVE ActivatedOutlets(_, _)
ActivatedOutlets(root, path) ==
  UNION {
    IF MapAt(root, path).outlets[i].isActivated
    THEN {[at |-> Append(path, MapAt(root, path).outlets[i].name),
           component |-> MapAt(root, path).outlets[i].component]}
         \cup ActivatedOutlets(root, Append(path, MapAt(root, path).outlets[i].name))
    ELSE {} : i \in 1..Len(MapAt(root, path).outlets)}

IsProperPrefix(a, b) == Len(a) < Len(b) /\ SubSeq(b, 1, Len(a)) = a

\* where the deactivate-checks of a component stand in a check list
DeactivateChecksOf(checks, component) ==
  {i \in 1..Len(checks) :
     checks[i].kind = "CanDeactivate" /\ checks[i].component = component}

\* where the first and the last deactivate-check of a component stand in a
\* check list, and where its unmount stands in the log (0: nowhere)
DeactivateCheckAt(checks, component) ==
  IF DeactivateChecksOf(checks, component) # {}
  THEN CHOOSE i \in DeactivateChecksOf(checks, component) :
         \A j \in DeactivateChecksOf(checks, component) : i <= j
  ELSE 0

LastDeactivateCheckAt(checks, component) ==
  IF DeactivateChecksOf(checks, component) # {}
  THEN CHOOSE i \in DeactivateChecksOf(checks, component) :
         \A j \in DeactivateChecksOf(checks, component) : j <= i
  ELSE 0

UnmountAt(log, from, at) ==
  IF \E k \in from..Len(log) : log[k].op = "unmount" /\ log[k].at = at
  THEN CHOOSE k \in from..Len(log) :
         /\ log[k].op = "unmount" /\ log[k].at = at
         /\ \A j \in from..(k - 1) : ~(log[j].op = "unmount" /\ log[j].at = at)
  ELSE 0

\* the slot of the k-th entry of the log was activated with the entry's
\* component when the entry was made: by the latest earlier entry of the
\* step for that slot, or else in the outlet map the step started from
ActivatedWhen(log, from, k, map) ==
  LET earlier == {j \in from..(k - 1) : log[j].at = log[k].at}
  IN IF earlier = {}
     THEN \E a \in ActivatedOutlets(map, <<>>) :
            a.at = log[k].at /\ a.component = log[k].component
     ELSE \E j \in earlier :
            /\ \A i \in earlier : i <= j
            /\ log[j].op = "mount" /\ log[j].component = log[k].component

\* C14: when navigation n commits and a previous route without a component
\* is not kept by the next tree, every outlet that was activated in that
\* route's parent outlet map, and in the maps nested in it, has a
\* deactivate-check in the navigation's check list and is unmounted by the
\* activation, a nested component always before the component containing it.
C14_WholeRegistryTornDown ==
  [][\A n \in NavIds :
       (~Committed(n) /\ nav'[n].navigationIsSuccessful = "true") =>
         \A d \in DroppedComponentless(nav'[n].state.snapshot.root,
                                       nav'[n].storedState.snapshot.root, <<>>) :
           \A a \in ActivatedOutlets(outletMap, d.inner) :
             /\ DeactivateCheckAt(nav'[n].checks, a.component) > 0
             /\ UnmountAt(ui', Len(ui) + 1, a.at) > 0
             /\ \A b \in ActivatedOutlets(outletMap, d.inner) :
                  IsProperPrefix(a.at, b.at) =>
                    /\ DeactivateCheckAt(nav'[n].checks, b.component)
                         < DeactivateCheckAt(nav'[n].checks, a.component)
                    /\ UnmountAt(ui', Len(ui) + 1, b.at)
                         < UnmountAt(ui', Len(ui) + 1, a.at)]_vars

\* the resolvers of the node a check is about
ResolversOfActivateCheck(check) ==
  IF check.kind = "CanActivate"
  THEN {ResolveOf(check.path[Len(check.path)].cfg)[i] :
          i \in 1..Len(ResolveOf(check.path[Len(check.path)].cfg))}
  ELSE {}

\* C15: the resolvers of a navigation are invoked only after its checkGuards
\* yielded true, and each of them belongs to a node that has an
\* activate-check: when the guards yield false or fail, none is ever
\* invoked, and none is invoked for a node that has only a deactivate-check
\* or no check.
C15_ResolveAfterApproval ==
  \A n \in NavIds :
    /\ (nav[n].resolving # <<>> \/ nav[n].pc = "resolveData" \/ nav[n].resolveSaw # "none")
         => nav[n].guards = "true" /\ nav[n].resolving # <<>>
    /\ nav[n].guards \in {"false", "throw"} =>
         nav[n].resolving = <<>> /\ nav[n].resolveSaw = "none" /\ nav[n].resolved = "none"
    /\ \A i \in 1..Len(nav[n].resolving) :
         \E k \in 1..Len(nav[n].checks) :
           nav[n].resolving[i] \in ResolversOfActivateCheck(nav[n].checks[k])
    /\ \A k \in 1..Len(nav[n].checks) :
         (/\ nav[n].checks[k].kind = "CanDeactivate"
          /\ \A j \in 1..Len(nav[n].checks) :
               nav[n].checks[j].kind = "CanActivate" =>
                 nav[n].checks[j].path[Len(nav[n].checks[j].path)].cfg
                   # nav[n].checks[k].route.cfg)
         => \A i \in 1..Len(nav[n].resolving) :
              nav[n].resolving[i] \notin
                {ResolveOf(nav[n].checks[k].route.cfg)[m] :
                   m \in 1..Len(ResolveOf(nav[n].checks[k].route.cfg))}

\* the first navigation mounted the user route and ran its resolver after
\* its guards said yes; the second one leaves the user route (it has only a
\* deactivate-check), its guards said yes and it ran no resolver
C15_Witness ==
  /\ Committed(1) /\ nav[1].guards = "true" /\ nav[1].resolving = <<"UserData">>
  /\ nav[1].resolveSaw = "ok"
  /\ Committed(2) /\ nav[2].guardYields = {"true"} /\ nav[2].resolving = <<>>
  /\ \E k \in 1..Len(nav[2].checks) :
       nav[2].checks[k].kind = "CanDeactivate" /\ nav[2].checks[k].route.cfg = "user"
  /\ \E k \in 1..Len(nav[2].checks) : nav[2].checks[k].kind = "CanActivate"

Front(q) == SubSeq(q, 1, Len(q) - 1)

\* the check list holds, next to each other, a deactivate-check with the
\* old snapshot of the kept node x (and, when the node's slot is registered
\* and activated in `map`, the component mounted there) and an
\* activate-check for the path to the new node
HasReentryChecks(checks, x, map) ==
  \E i \in 1..(Len(checks) - 1) :
    /\ checks[i].kind = "CanDeactivate" /\ checks[i].route = x.prev
    /\ (HasOutlet(map, Front(x.at), x.at[Len(x.at)])
        /\ OutletAt(map, Front(x.at), x.at[Len(x.at)]).isActivated)
         => checks[i].component = OutletAt(map, Front(x.at), x.at[Len(x.at)]).component
    /\ checks[i + 1].kind = "CanActivate"
    /\ checks[i + 1].path[Len(checks[i + 1].path)] = x.future

\* C16: when the guard-phase diff of navigation n has run, for every node
\* the next tree keeps (same route configuration in the same slot) with
\* parameters that are not shallow-equal, the check list holds a
\* deactivate-check with the slot's mounted component and the old snapshot
\* immediately followed by the activate-check of the path to the new node,
\* whether the node has a component or not and whether its slot is
\* registered or not.
C16_ReentryChecksForEveryKeptNode ==
  [][\A n \in NavIds :
       (nav[n].pc = "resolve" /\ nav'[n].pc # "resolve") =>
         \A x \in KeptBy(nav'[n]) :
           ~shallowEqual(x.future.params, x.prev.params) =>
             HasReentryChecks(nav'[n].checks, x, outletMap)]_vars

\* navigation n enters its commit block in this step
EntersCommit(n) == ~ReachedCommit(n) /\ ReachedCommit(n)'

\* C17: teardown is post-order in both passes.  When navigation n enters its
\* commit block, every component that was mounted before and that the
\* activation unmounts has a deactivate-check in the check list; every
\* activated slot nested in it has its deactivate-check earlier in the list
\* and is unmounted earlier; and a slot that is not activated contributes
\* nothing: every deactivate-check is of a component mounted in an
\* activated slot, and every unmount is of the component its slot was
\* activated with at that moment.
C17_TeardownPostOrder ==
  [][\A n \in NavIds :
       EntersCommit(n) =>
         /\ \A a \in ActivatedOutlets(outletMap, <<>>) :
              UnmountAt(ui', Len(ui) + 1, a.at) > 0 =>
                /\ DeactivateCheckAt(nav'[n].checks, a.component) > 0
                /\ \A b \in ActivatedOutlets(outletMap, a.at) :
                     /\ DeactivateCheckAt(nav'[n].checks, b.component)
                          \in 1..(DeactivateCheckAt(nav'[n].checks, a.component) - 1)
                     /\ UnmountAt(ui', Len(ui) + 1, b.at)
                          \in 1..(UnmountAt(ui', Len(ui) + 1, a.at) - 1)
         /\ \A k \in 1..Len(nav'[n].checks) :
              nav'[n].checks[k].kind = "CanDeactivate" =>
                \E a \in ActivatedOutlets(outletMap, <<>>) :
                  a.component = nav'[n].checks[k].component
         /\ \A k \in (Len(ui) + 1)..Len(ui') :
              ui'[k].op = "unmount" => ActivatedWhen(ui', Len(ui) + 1, k, outletMap)]_vars

\* /simple over /team/33/user/11: the check list starts with the
\* deactivate-check of UserCmp, then that of TeamCmp, and the log ends with
\* the unmount of UserCmp, the unmount of TeamCmp and the mount of SimpleCmp
C17_Witness ==
  /\ nav[1].url = UrlTeam11 /\ Committed(1)
  /\ nav[2].url = UrlSimple /\ Committed(2)
  /\ Len(nav[2].checks) = 3
  /\ nav[2].checks[1] = CanDeactivate("UserCmp", Value(UserSnapshot("11")))
  /\ nav[2].checks[2].kind = "CanDeactivate" /\ nav[2].checks[2].component = "TeamCmp"
  /\ Len(ui) = 5
  /\ ui[3] = [op |-> "unmount", component |-> "UserCmp",
              at |-> <<PRIMARY_OUTLET, PRIMARY_OUTLET>>, by |-> 2]
  /\ ui[4] = [op |-> "unmount", component |-> "TeamCmp", at |-> <<PRIMARY_OUTLET>>, by |-> 2]
  /\ ui[5].op = "mount" /\ ui[5].component = "SimpleCmp"

\* the address of the outlet of the node an activate-check's path leads to
AddrOfPath(path) ==
  LET idx == SelectSeq([i \in 1..Len(path) |-> i],
                       LAMBDA i : i >= 2 /\ (i = Len(path) \/ path[i].component # NoComponent))
  IN [k \in 1..Len(idx) |-> path[idx[k]].outlet]

IsPrefix(a, b) == Len(a) <= Len(b) /\ SubSeq(b, 1, Len(a)) = a

\* the slots of kept nodes' children that the next tree leaves empty: the
\* slot's address and the address `level` of the outlet map it is in
RECURSIVE VacatedSlots(_, _, _)
VacatedSlots(f, p, inner) ==
  {[at |-> Append(inner, p.children[j].outlet), level |-> inner] :
     j \in {k \in 1..Len(p.children) :
              ~\E i \in 1..Len(f.children) : f.children[i].outlet = p.children[k].outlet}}
  \cup UNION {
    LET j == ChildIndex(SnapshotOutlets(p.children), f.children[i].outlet)
    IN IF j > 0 /\ f.children[i].cfg = p.children[j].cfg
       THEN VacatedSlots(f.children[i], p.children[j],
                         IF f.children[i].component # NoComponent
                         THEN Append(inner, f.children[i].outlet) ELSE inner)
       ELSE {} : i \in 1..Len(f.children)}

\* the predicates one check starts, spelled out: for an activate-check the
\* node's own canActivate, then canActivateChild of its parent, of its
\* grandparent, and so on up to the root; for a deactivate-check the
\* canDeactivate of the route left
PredicatesInOrder(check) ==
  IF check.kind = "CanActivate"
  THEN CanActivateOf(check.path[Len(check.path)].cfg)
       \o Flatten([i \in 1..(Len(check.path) - 1) |->
                     CanActivateChildOf(check.path[Len(check.path) - i].cfg)])
  ELSE CanDeactivateOf(check.route.cfg)

C19_FailedActivationLeavesNoTrace ==
  [][\A n \in NavIds :
       (nav[n].pc = "failed" /\ nav[n].failedIn = "activate" /\ nav'[n].pc = "done") =>
         /\ CountOf(n, "NavigationError")' = 1
         /\ nav'[n].result = "rejected"
         /\ Pair' = <<nav[n].storedUrl, nav[n].storedState>>
         /\ \A k \in 1..Len(ui') : ui'[k].by # n]_vars

\* ------------------------------------------------------------------------
\* The location listener (specification SpecLocation)
\* ------------------------------------------------------------------------
\* the latest navigation was scheduled by a change event to the URL the
\* location is at
AtChangedUrl ==
  /\ locationSubscription
  /\ navigationId >= 2
  /\ nav[navigationId].url = parse(locPath)

\* C20: the router navigates once for a URL change.  When the latest
\* navigation was scheduled by a change event to the URL the location is at,
\* a further step in which the location stays at that URL (a repeated event
\* for the same change, be it before or after that navigation committed)
\* allocates no id and emits no NavigationStart; and a change event to the
\* current URL never schedules anything.
C20_NavigatesOnce ==
  [][/\ (AtChangedUrl /\ locPath' = locPath) =>
          navigationId' = navigationId /\ StartEvents' = StartEvents
     /\ (locationSubscription /\ parse(locPath') = currentUrlTree) =>
          navigationId' = navigationId /\ StartEvents' = StartEvents]_vars

\* ------------------------------------------------------------------------
\* The mounted components, the two diffs, the location, termination
\* ------------------------------------------------------------------------
\* the nodes of a RouterState that have a component, each with the address
\* of its outlet and its ActivatedRoute (the root component is in no outlet)
RECURSIVE ComponentNodes(_, _, _)
ComponentNodes(f, fr, inner) ==
  UNION {
    (IF f.children[i].component # NoComponent
     THEN {[at |-> Append(inner, f.children[i].outlet),
            component |-> f.children[i].component, route |-> fr.children[i].value]}
     ELSE {})
    \cup ComponentNodes(f.children[i], fr.children[i],
                        IF f.children[i].component # NoComponent
                        THEN Append(inner, f.children[i].outlet) ELSE inner) :
    i \in 1..Len(f.children)}

\* C21: when a navigation commits, the mounted components are those of the
\* new tree: every node of the new tree that has a component is activated
\* in its slot, with its component and its ActivatedRoute, and every
\* activated slot holds the component of a node of the new tree.
C21_MountedMatchesTree ==
  [][\A n \in NavIds :
       (~Committed(n) /\ nav'[n].navigationIsSuccessful = "true") =>
         /\ \A c \in ComponentNodes(nav'[n].state.snapshot.root, nav'[n].state.root, <<>>) :
              /\ HasOutlet(outletMap', Front(c.at), c.at[Len(c.at)])
              /\ OutletAt(outletMap', Front(c.at), c.at[Len(c.at)]).isActivated
              /\ OutletAt(outletMap', Front(c.at), c.at[Len(c.at)]).component = c.component
              /\ OutletAt(outletMap', Front(c.at), c.at[Len(c.at)]).activatedRoute = c.route
         /\ \A a \in ActivatedOutlets(outletMap', <<>>) :
              \E c \in ComponentNodes(nav'[n].state.snapshot.root, nav'[n].state.root, <<>>) :
                c.at = a.at /\ c.component = a.component]_vars

\* C22: the two diffs of a navigation agree.  When navigation n enters its
\* commit block, the state its guard-phase diff read as the current one is
\* the state its activation gets as the outgoing one, and every component
\* the activation unmounts has a deactivate-check in the navigation's check
\* list; and when the guard-phase diff has run, the check list holds at most
\* one deactivate-check for each mounted component.
C22_DiffsAgree ==
  [][\A n \in NavIds :
       /\ EntersCommit(n) =>
            /\ nav'[n].curr = nav'[n].storedState.snapshot
            /\ \A e \in UiOfStep :
                 e.op = "unmount" => DeactivateChecksOf(nav'[n].checks, e.component) # {}
       /\ (nav[n].pc = "resolve" /\ nav'[n].pc # "resolve") =>
            \A a \in ActivatedOutlets(outletMap, <<>>) :
              Cardinality(DeactivateChecksOf(nav'[n].checks, a.component)) <= 1]_vars

\* every navigation scheduled so far has settled and no promise job is left
AllSettled ==
  /\ microtasks = <<>>
  /\ \A n \in NavIds : nav[n].pc \in {"idle", "done"}

\* C23: once the router listens to the location and every navigation has
\* settled, the path of the location is the serialized current URL.
C23_LocationMatchesUrl ==
  (locationSubscription /\ AllSettled) =>
    LocationNormalize(locPath) = LocationNormalize(serialize(currentUrlTree))

\* the promise of navigation n is resolved or rejected and a terminal event
\* with its id has been emitted
Settled(n) ==
  /\ nav[n].pc = "done"
  /\ nav[n].result \in {"true", "false", "rejected"}
  /\ TypesOf(n) \cap {"NavigationEnd", "NavigationCancel", "NavigationError"} # {}

\* C24: every scheduled navigation eventually settles: its promise is
\* resolved or rejected and a terminal event with its id is emitted, however
\* many other navigations are issued meanwhile.
C24_EventuallySettles ==
  \A n \in NavIds : (nav[n].pc # "idle") ~> Settled(n)

\* a navigation has settled although a later one was issued before it did
\* and is still in flight
C24_Witness ==
  \E n \in NavIds :
    /\ Settled(n)
    /\ n < navigationId
    /\ \E m \in NavIds : m > n /\ nav[m].pc \notin {"idle", "done"}
    /\ \E i \in 1..Len(routerEvents) :
         /\ routerEvents[i].type = "NavigationStart" /\ routerEvents[i].id > n
         /\ \E j \in (i+1)..Len(routerEvents) :
              routerEvents[j].id = n /\ routerEvents[j].type # "NavigationStart"

====
